---------------------------- MODULE Spec2Model ----------------------------
(***************************************************************************)
(* Playbot: the Robot Framework keyword library over the Playwright sync   *)
(* API (playbot/Playbot.py) and its browser wrapper                        *)
(* (playbot/src/browser.py).                                               *)
(*                                                                         *)
(* The model keeps the facade's two fields, the automation engine's        *)
(* objects (driver processes, browsers, contexts, pages, element handles)  *)
(* and a record of the last keyword invocation: what was passed, which     *)
(* engine operations it invoked, and how it ended.  The handles the test   *)
(* suite holds are the ones the keywords returned, so every handle the     *)
(* engine created is one a later keyword may be given.                     *)
(*                                                                         *)
(* Outcomes of a keyword:                                                  *)
(*   "ok"             it returned                                          *)
(*   "RuntimeError"   the configuration error raised by browser.py:24      *)
(*   "TypeError"      raised by the Python call itself (wrong arity)       *)
(*   "AttributeError" raised by the Python attribute lookup on None        *)
(*   "EngineError"    raised inside the automation engine                  *)
(***************************************************************************)
EXTENDS Integers, Sequences, FiniteSets, TLC

VARIABLES selected_browser, playbot_browser, engine, last, e2e

vars == <<selected_browser, playbot_browser, engine, last, e2e>>

(***************************************************************************)
(* Bounds of the model.                                                    *)
(***************************************************************************)
MaxDrivers == 2
MaxContexts == 1
MaxPages == 1
MaxElements == 1

(***************************************************************************)
(* Inputs.                                                                 *)
(***************************************************************************)
SupportedBrowsers == {"chromium", "firefox", "webkit"}
BrowserNames == SupportedBrowsers \cup {"opera", "Chromium"}
ContextOptions == {"default", "viewport=1920x1080"}
Urls == {"https://example.org/"}
NoArg == "<none>"
Selectors == {"//body", "#missing"}
SelectorArgs == Selectors \cup {NoArg}

(***************************************************************************)
(* Values.                                                                 *)
(***************************************************************************)
None == [kind |-> "None", id |-> 0]
True == [kind |-> "bool", id |-> 1]
False == [kind |-> "bool", id |-> 0]
Handle(kind, id) == [kind |-> kind, id |-> id]
\* One engine operation as invoked: which, on what, with what, and the engine's
\* own verdict on it.
Call(op, target, arg, out) == [op |-> op, target |-> target, arg |-> arg, out |-> out]
Result(e, held, outcome, ret, calls) ==
    [engine |-> e, held |-> held, outcome |-> outcome, ret |-> ret, calls |-> calls]

ContextHandles == {Handle("PlaybotContext", i) : i \in 1..Len(engine.contexts)}
PageHandles == {Handle("PlaybotPage", i) : i \in 1..Len(engine.pages)}
ElementHandles == {Handle("ElementHandle", i) : i \in 1..Len(engine.elements)}

(***************************************************************************)
(* The automation engine, as the keywords use it.                          *)
(***************************************************************************)
BrowserAlive(e, b) == b \in 1..Len(e.browsers) /\ e.browsers[b].alive
ContextOpen(e, c) == c \in 1..Len(e.contexts) /\ e.contexts[c].open
PageOpen(e, p) == p \in 1..Len(e.pages) /\ e.pages[p].open
ElementAttached(e, x) == x \in 1..Len(e.elements) /\ PageOpen(e, e.elements[x].page)
LiveBrowsers(e) == {b \in 1..Len(e.browsers) : e.browsers[b].alive}
Matches(selector) == selector = "//body"

\* What an engine operation hands back: it returned ret (ok) or raised, and
\* the call is logged with that verdict.
Engine(e, held, ok, ret, op, target, arg) ==
    LET out == IF ok THEN "ok" ELSE "EngineError"
    IN  Result(e, held, out, IF ok THEN ret ELSE None, <<Call(op, target, arg, out)>>)

\* sync_playwright().start(): one more engine driver process, unless the
\* engine refuses to start one (start_ok is its verdict).
sync_playwright_start(e, held, start_ok) ==
    Engine(IF start_ok THEN [e EXCEPT !.drivers = @ + 1] ELSE e,
           held, start_ok, None, "sync_playwright.start", 0, NoArg)

\* started.<backend>.launch(**kwargs), started being what
\* sync_playwright().start() gave: not reached when that raised; launch_ok is
\* the engine's verdict on the launch.
BrowserType_launch(started, backend, launch_ok) ==
    IF started.outcome # "ok"
    THEN started
    ELSE LET e == started.engine
             r == Engine(IF launch_ok
                         THEN [e EXCEPT !.browsers =
                                   Append(@, [backend |-> backend, alive |-> TRUE])]
                         ELSE e,
                         started.held, launch_ok, Handle("Browser", Len(e.browsers) + 1),
                         "BrowserType.launch", 0, backend)
         IN  [r EXCEPT !.calls = started.calls \o @]

\* Browser.close(): ends the browser process and all that lives in it.
Browser_close(e, held, b) ==
    Engine(IF BrowserAlive(e, b)
           THEN [e EXCEPT
                   !.browsers[b].alive = FALSE,
                   !.contexts = [c \in DOMAIN @ |->
                       IF @[c].browser = b THEN [@[c] EXCEPT !.open = FALSE] ELSE @[c]],
                   !.pages = [p \in DOMAIN @ |->
                       IF e.contexts[@[p].context].browser = b
                       THEN [@[p] EXCEPT !.open = FALSE] ELSE @[p]]]
           ELSE e,
           held, BrowserAlive(e, b), None, "Browser.close", b, NoArg)

\* Browser.new_context(**kwargs)
Browser_new_context(e, held, b, options) ==
    Engine(IF BrowserAlive(e, b)
           THEN [e EXCEPT !.contexts = Append(@, [browser |-> b, open |-> TRUE])]
           ELSE e,
           held, BrowserAlive(e, b), Handle("BrowserContext", Len(e.contexts) + 1),
           "Browser.new_context", b, options)

\* BrowserContext.close(): closes the context and its pages.  What closing a
\* context that is already closed does is the engine's business: reclose_ok
\* ranges over both answers.
BrowserContext_close(e, held, c, reclose_ok) ==
    Engine(IF ContextOpen(e, c)
           THEN [e EXCEPT
                   !.contexts[c].open = FALSE,
                   !.pages = [p \in DOMAIN @ |->
                       IF @[p].context = c THEN [@[p] EXCEPT !.open = FALSE] ELSE @[p]]]
           ELSE e,
           held, ContextOpen(e, c) \/ reclose_ok, None, "BrowserContext.close", c, NoArg)

\* BrowserContext.new_page(**kwargs)
BrowserContext_new_page(e, held, c) ==
    Engine(IF ContextOpen(e, c)
           THEN [e EXCEPT !.pages = Append(@, [context |-> c, open |-> TRUE])]
           ELSE e,
           held, ContextOpen(e, c), Handle("Page", Len(e.pages) + 1),
           "BrowserContext.new_page", c, NoArg)

\* Page.goto(url, **kwargs)
Page_goto(e, held, p, url) ==
    Engine(e, held, PageOpen(e, p), None, "Page.goto", p, url)

\* Page.click(selector, **kwargs): raises when nothing matches in time.
Page_click(e, held, p, selector) ==
    Engine(e, held, PageOpen(e, p) /\ Matches(selector), None, "Page.click", p, selector)

\* Page.is_visible(selector, timeout=...)
Page_is_visible(e, held, p, selector) ==
    Engine(e, held, PageOpen(e, p) /\ selector # NoArg,
           IF Matches(selector) THEN True ELSE False, "Page.is_visible", p, selector)

\* Page.query_selector(selector): the element, or None when nothing matches.
Page_query_selector(e, held, p, selector) ==
    Engine(IF PageOpen(e, p) /\ Matches(selector)
           THEN [e EXCEPT !.elements = Append(@, [page |-> p])]
           ELSE e,
           held, PageOpen(e, p),
           IF Matches(selector) THEN Handle("ElementHandle", Len(e.elements) + 1) ELSE None,
           "Page.query_selector", p, selector)

\* ElementHandle.click(**kwargs)
ElementHandle_click(e, held, x) ==
    Engine(e, held, ElementAttached(e, x), None, "ElementHandle.click", x, NoArg)

\* ElementHandle.is_visible()
ElementHandle_is_visible(e, held, x) ==
    Engine(e, held, ElementAttached(e, x), True, "ElementHandle.is_visible", x, NoArg)

\* ElementHandle.query_selector(selector)
ElementHandle_query_selector(e, held, x, selector) ==
    Engine(IF ElementAttached(e, x) /\ Matches(selector)
           THEN [e EXCEPT !.elements = Append(@, [page |-> e.elements[x].page])]
           ELSE e,
           held, ElementAttached(e, x),
           IF Matches(selector) THEN Handle("ElementHandle", Len(e.elements) + 1) ELSE None,
           "ElementHandle.query_selector", x, selector)

(***************************************************************************)
(* playbot/src/browser.py: class PlaybotBrowser.                           *)
(***************************************************************************)
\* A copied branch left launching the wrong backend.
PlaybotBrowser_start_browser_copied_branch(e, held, browser, start_ok, launch_ok) ==
    IF browser = "chromium"
    THEN BrowserType_launch(sync_playwright_start(e, held, start_ok), "chromium", launch_ok)
    ELSE IF browser = "firefox"
    THEN BrowserType_launch(sync_playwright_start(e, held, start_ok), "firefox", launch_ok)
    ELSE IF browser = "webkit"
    THEN BrowserType_launch(sync_playwright_start(e, held, start_ok), "chromium", launch_ok)
    ELSE Result(e, held, "RuntimeError", None, <<>>)

PlaybotBrowser_start_browser(e, held, browser, start_ok, launch_ok) ==
    IF browser = "chromium"
    THEN BrowserType_launch(sync_playwright_start(e, held, start_ok), "chromium", launch_ok)
    ELSE IF browser = "firefox"
    THEN BrowserType_launch(sync_playwright_start(e, held, start_ok), "firefox", launch_ok)
    ELSE IF browser = "webkit"
    THEN BrowserType_launch(sync_playwright_start(e, held, start_ok), "webkit", launch_ok)
    ELSE Result(e, held, "RuntimeError", None, <<>>)

\* PlaybotBrowser(browser, **kwargs): the wrapper, its .browser set to what
\* _start_browser returned; an exception leaves no wrapper.
PlaybotBrowser_init(e, held, browser, start_ok, launch_ok) ==
    LET r == PlaybotBrowser_start_browser(e, held, browser, start_ok, launch_ok)
    IN  IF r.outcome = "ok"
        THEN [r EXCEPT !.ret = Handle("PlaybotBrowser", r.ret.id)]
        ELSE r

\* @staticmethod close_browser(browser): args are the positional arguments of
\* the call; the parameter has no default.
PlaybotBrowser_close_browser(e, held, args) ==
    IF Len(args) # 1
    THEN Result(e, held, "TypeError", None, <<>>)
    ELSE Browser_close(e, held, args[1])

(***************************************************************************)
(* playbot/src/context.py and playbot/src/page.py: the context and page    *)
(* wrappers, as Playbot.py uses them.                                      *)
(***************************************************************************)
PlaybotContext_init(e, held, browser, options) ==
    LET r == Browser_new_context(e, held, browser, options)
    IN  IF r.outcome = "ok"
        THEN [r EXCEPT !.ret = Handle("PlaybotContext", r.ret.id)]
        ELSE r

PlaybotContext_close_context(e, held, context, reclose_ok) ==
    BrowserContext_close(e, held, context, reclose_ok)

PlaybotPage_init(e, held, context) ==
    LET r == BrowserContext_new_page(e, held, context)
    IN  IF r.outcome = "ok"
        THEN [r EXCEPT !.ret = Handle("PlaybotPage", r.ret.id)]
        ELSE r

PlaybotPage_go_to(e, held, page, url) == Page_goto(e, held, page, url)

PlaybotPage_click(e, held, page, selector) == Page_click(e, held, page, selector)

PlaybotPage_is_visible(e, held, page, selector) == Page_is_visible(e, held, page, selector)

PlaybotPage_query_selector(e, held, page, selector) ==
    Page_query_selector(e, held, page, selector)

(***************************************************************************)
(* playbot/Playbot.py: class Playbot, the keywords.  held is                *)
(* self._playbot_browser, selected is self._selected_browser.              *)
(***************************************************************************)
isinstance_PlaybotPage(handle) == handle.kind = "PlaybotPage"

\* A start that keeps a wrapper of the failed construction.
Playbot_start_browser_keeps_failed(e, held, selected, start_ok, launch_ok) ==
    LET r == PlaybotBrowser_init(e, held, selected, start_ok, launch_ok)
    IN  IF r.outcome = "ok"
        THEN [r EXCEPT !.held = r.ret, !.ret = None]
        ELSE [r EXCEPT !.held = Handle("PlaybotBrowser", 0)]

\* A start that closes the browser it holds before replacing it.
Playbot_start_browser_closes_previous(e, held, selected, start_ok, launch_ok) ==
    LET r == PlaybotBrowser_init(IF held = None THEN e ELSE Browser_close(e, held, held.id).engine,
                                 held, selected, start_ok, launch_ok)
    IN  IF r.outcome = "ok" THEN [r EXCEPT !.held = r.ret, !.ret = None] ELSE r

\* A start that drops the held wrapper when the new construction fails.
Playbot_start_browser_resets_on_failure(e, held, selected, start_ok, launch_ok) ==
    LET r == PlaybotBrowser_init(e, held, selected, start_ok, launch_ok)
    IN  IF r.outcome = "ok"
        THEN [r EXCEPT !.held = r.ret, !.ret = None]
        ELSE [r EXCEPT !.held = None]

Playbot_start_browser(e, held, selected, start_ok, launch_ok) ==
    LET r == PlaybotBrowser_init(e, held, selected, start_ok, launch_ok)
    IN  IF r.outcome = "ok" THEN [r EXCEPT !.held = r.ret, !.ret = None] ELSE r

\* A close that forgets the wrapper it was asked to close.
Playbot_close_browser_clears(e, held) ==
    IF held = None
    THEN Result(e, held, "AttributeError", None, <<>>)
    ELSE [PlaybotBrowser_close_browser(e, held, <<>>) EXCEPT !.held = None]

Playbot_close_browser(e, held) ==
    IF held = None
    THEN Result(e, held, "AttributeError", None, <<>>)
    ELSE PlaybotBrowser_close_browser(e, held, <<>>)

\* A new_context that keeps using the first browser ever started.
Playbot_new_context_first_browser(e, held, options) ==
    IF held = None
    THEN Result(e, held, "AttributeError", None, <<>>)
    ELSE PlaybotContext_init(e, held, 1, options)

Playbot_new_context(e, held, options) ==
    IF held = None
    THEN Result(e, held, "AttributeError", None, <<>>)
    ELSE PlaybotContext_init(e, held, held.id, options)

\* A close_context that skips the engine for a context already closed.
Playbot_close_context_guarded(e, held, context, reclose_ok) ==
    IF ContextOpen(e, context.id)
    THEN PlaybotContext_close_context(e, held, context.id, reclose_ok)
    ELSE Result(e, held, "ok", None, <<>>)

Playbot_close_context(e, held, context, reclose_ok) ==
    PlaybotContext_close_context(e, held, context.id, reclose_ok)

Playbot_new_page(e, held, context) == PlaybotPage_init(e, held, context.id)

Playbot_go_to(e, held, page, url) == PlaybotPage_go_to(e, held, page.id, url)

\* A click that rejects a selector given with an element handle.
Playbot_click_rejects_selector(e, held, handle, selector) ==
    IF isinstance_PlaybotPage(handle)
    THEN PlaybotPage_click(e, held, handle.id, selector)
    ELSE IF selector # NoArg
    THEN Result(e, held, "TypeError", None, <<>>)
    ELSE ElementHandle_click(e, held, handle.id)

Playbot_click(e, held, handle, selector) ==
    IF isinstance_PlaybotPage(handle)
    THEN PlaybotPage_click(e, held, handle.id, selector)
    ELSE ElementHandle_click(e, held, handle.id)

\* An is_visible with the type test inverted.
Playbot_is_visible_inverted(e, held, handle, selector) ==
    IF ~isinstance_PlaybotPage(handle)
    THEN PlaybotPage_is_visible(e, held, handle.id, selector)
    ELSE ElementHandle_is_visible(e, held, handle.id)

Playbot_is_visible(e, held, handle, selector) ==
    IF isinstance_PlaybotPage(handle)
    THEN PlaybotPage_is_visible(e, held, handle.id, selector)
    ELSE ElementHandle_is_visible(e, held, handle.id)

\* handle.query_selector(selector): the method of whatever object was passed.
Playbot_query_selector(e, held, handle, selector) ==
    IF handle.kind = "PlaybotPage"
    THEN PlaybotPage_query_selector(e, held, handle.id, selector)
    ELSE ElementHandle_query_selector(e, held, handle.id, selector)

(***************************************************************************)
(* The end-to-end scenario of the documentation: how many of its steps,    *)
(* taken in order from a fresh library, have been invoked, each after the  *)
(* one before it succeeded; -1 once the run has left the scenario.         *)
(***************************************************************************)
ScenarioStep(k, l) ==
    CASE k = 1 -> l.kw = "start_browser" /\ selected_browser = "chromium"
      [] k = 2 -> l.kw = "new_context" /\ l.arg = "viewport=1920x1080"
      [] k = 3 -> l.kw = "new_page" /\ l.handle = Handle("PlaybotContext", 1)
      [] k = 4 -> l.kw = "go_to" /\ l.handle = Handle("PlaybotPage", 1)
      [] k = 5 -> l.kw = "is_visible" /\ l.handle = Handle("PlaybotPage", 1)
                    /\ l.arg = "//body"
      [] k = 6 -> l.kw = "close_context" /\ l.handle = Handle("PlaybotContext", 1)
      [] k = 7 -> l.kw = "close_browser"
      [] OTHER -> FALSE

StepSucceeded == last.outcome = "ok" /\ (e2e = 5 => last.ret = True)

Advance(l) ==
    IF e2e >= 0 /\ (e2e = 0 \/ StepSucceeded) /\ ScenarioStep(e2e + 1, l)
    THEN e2e + 1
    ELSE -1

\* One keyword invocation by the test runner, with what it did.
Invoke(kw, handle, arg, r) ==
    LET l == [kw |-> kw, handle |-> handle, arg |-> arg,
              outcome |-> r.outcome, ret |-> r.ret, calls |-> r.calls]
    IN  /\ engine' = r.engine
        /\ playbot_browser' = r.held
        /\ last' = l
        /\ e2e' = Advance(l)
        /\ UNCHANGED selected_browser

(***************************************************************************)
(* Initial state: Playbot(browser) has been constructed.                   *)
(***************************************************************************)
Init ==
    /\ selected_browser \in BrowserNames
    /\ playbot_browser = None
    /\ engine = [drivers |-> 0, browsers |-> <<>>, contexts |-> <<>>,
                 pages |-> <<>>, elements |-> <<>>]
    /\ last = [kw |-> "__init__", handle |-> None, arg |-> selected_browser,
               outcome |-> "ok", ret |-> None, calls |-> <<>>]
    /\ e2e = 0

(***************************************************************************)
(* The keywords as steps of the test run.                                  *)
(***************************************************************************)
start_browser ==
    \E start_ok, launch_ok \in BOOLEAN :
        LET r == Playbot_start_browser(engine, playbot_browser, selected_browser,
                                       start_ok, launch_ok)
        IN  /\ r.engine.drivers <= MaxDrivers
            /\ Invoke("start_browser", None, NoArg, r)

close_browser ==
    \E r \in {Playbot_close_browser(engine, playbot_browser)} :
        Invoke("close_browser", None, NoArg, r)

new_context ==
    \E options \in ContextOptions :
        LET r == Playbot_new_context(engine, playbot_browser, options)
        IN  /\ Len(r.engine.contexts) <= MaxContexts
            /\ Invoke("new_context", None, options, r)

close_context ==
    \E context \in ContextHandles, reclose_ok \in BOOLEAN :
        Invoke("close_context", context, NoArg,
               Playbot_close_context(engine, playbot_browser, context, reclose_ok))

new_page ==
    \E context \in ContextHandles :
        LET r == Playbot_new_page(engine, playbot_browser, context)
        IN  /\ Len(r.engine.pages) <= MaxPages
            /\ Invoke("new_page", context, NoArg, r)

go_to ==
    \E page \in PageHandles, url \in Urls :
        Invoke("go_to", page, url, Playbot_go_to(engine, playbot_browser, page, url))

click ==
    \E handle \in PageHandles \cup ElementHandles, selector \in SelectorArgs :
        Invoke("click", handle, selector,
               Playbot_click(engine, playbot_browser, handle, selector))

is_visible ==
    \E handle \in PageHandles \cup ElementHandles, selector \in SelectorArgs :
        Invoke("is_visible", handle, selector,
               Playbot_is_visible(engine, playbot_browser, handle, selector))

query_selector ==
    \E handle \in PageHandles \cup ElementHandles, selector \in Selectors :
        LET r == Playbot_query_selector(engine, playbot_browser, handle, selector)
        IN  /\ Len(r.engine.elements) <= MaxElements
            /\ Invoke("query_selector", handle, selector, r)

Next ==
    \/ start_browser
    \/ close_browser
    \/ new_context
    \/ close_context
    \/ new_page
    \/ go_to
    \/ click
    \/ is_visible
    \/ query_selector

Spec == Init /\ [][Next]_vars

TypeOK ==
    /\ selected_browser \in BrowserNames
    /\ playbot_browser = None \/ playbot_browser.kind = "PlaybotBrowser"
    /\ engine.drivers \in 0..MaxDrivers
    /\ Len(engine.browsers) <= engine.drivers
    /\ e2e \in -1..7

(***************************************************************************)
(* Properties.                                                             *)
(***************************************************************************)

\* C1 (as stated): after start_browser on a facade constructed with a
\* supported name the call has succeeded and the facade holds a live browser
\* of that backend; with any other name the call has failed with the
\* configuration error and nothing was asked of the engine.
C1_StartAlwaysSucceeds ==
    last.kw = "start_browser" =>
        IF selected_browser \in SupportedBrowsers
        THEN /\ last.outcome = "ok"
             /\ playbot_browser # None
             /\ BrowserAlive(engine, playbot_browser.id)
             /\ engine.browsers[playbot_browser.id].backend = selected_browser
        ELSE /\ last.outcome = "RuntimeError"
             /\ last.calls = <<>>

\* C1 (amended): start_browser with a supported name never raises the
\* configuration error; it asks the engine to start a driver and then, of
\* that driver, to launch exactly that backend, and ends as the engine ends:
\* when both return, one driver and one browser process of that backend have
\* been spawned and the facade holds the wrapper of that browser; when the
\* engine raises, its error is the outcome and no browser process comes of the
\* call.  With any other name the call fails with the configuration error,
\* and starts no driver and no browser.
C1_StartBrowser ==
    [][last'.kw = "start_browser" =>
        IF selected_browser \in SupportedBrowsers
        THEN /\ Len(last'.calls) \in {1, 2}
             /\ last'.calls[1].op = "sync_playwright.start"
             /\ engine'.drivers =
                    engine.drivers + (IF last'.calls[1].out = "ok" THEN 1 ELSE 0)
             /\ Len(last'.calls) = 2 <=> last'.calls[1].out = "ok"
             /\ Len(last'.calls) = 2 =>
                  /\ last'.calls[2].op = "BrowserType.launch"
                  /\ last'.calls[2].arg = selected_browser
             /\ last'.outcome = last'.calls[Len(last'.calls)].out
             /\ last'.outcome \in {"ok", "EngineError"}
             /\ last'.outcome = "ok" =>
                  /\ engine'.browsers =
                        Append(engine.browsers,
                               [backend |-> selected_browser, alive |-> TRUE])
                  /\ playbot_browser' = Handle("PlaybotBrowser", Len(engine'.browsers))
             /\ last'.outcome # "ok" => engine'.browsers = engine.browsers
        ELSE /\ last'.outcome = "RuntimeError"
             /\ last'.calls = <<>>
             /\ engine' = engine
    ]_vars

C1_Witness ==
    /\ last.kw = "start_browser"
    /\ last.outcome = "ok"
    /\ selected_browser = "webkit"
    /\ BrowserAlive(engine, playbot_browser.id)
    /\ engine.browsers[playbot_browser.id].backend = "webkit"

\* C2: close_browser invoked when a start_browser has succeeded completes
\* without error, and right after it the browser process the facade holds is
\* no longer running.
C2_CloseBrowserTerminates ==
    (last.kw = "close_browser" /\ playbot_browser # None) =>
        /\ last.outcome = "ok"
        /\ ~BrowserAlive(engine, playbot_browser.id)

\* C3: when the scenario start_browser (chromium), new_context(viewport),
\* new_page, go_to, is_visible(page, "//body"), close_context, close_browser
\* has been run in that order, each step after the one before it succeeded,
\* the last step has succeeded too and no browser and no engine driver is
\* left alive.
C3_EndToEnd ==
    e2e = 7 =>
        /\ last.outcome = "ok"
        /\ LiveBrowsers(engine) = {}
        /\ engine.drivers = 0

\* C4: click, is_visible and query_selector invoke exactly one engine
\* operation: given a page wrapper, the page-scoped one on that page with the
\* selector passed; given an element handle, the element-scoped one on that
\* element.
C4_Dispatch ==
    last.kw \in {"click", "is_visible", "query_selector"} =>
        /\ Len(last.calls) = 1
        /\ last.calls[1].target = last.handle.id
        /\ IF last.handle.kind = "PlaybotPage"
           THEN /\ last.calls[1].op =
                      CASE last.kw = "click" -> "Page.click"
                        [] last.kw = "is_visible" -> "Page.is_visible"
                        [] last.kw = "query_selector" -> "Page.query_selector"
                /\ last.calls[1].arg = last.arg
           ELSE /\ last.handle.kind = "ElementHandle"
                /\ last.calls[1].op =
                      CASE last.kw = "click" -> "ElementHandle.click"
                        [] last.kw = "is_visible" -> "ElementHandle.is_visible"
                        [] last.kw = "query_selector" -> "ElementHandle.query_selector"
                /\ last.calls[1].arg =
                      IF last.kw = "query_selector" THEN last.arg ELSE NoArg

C4_Witness ==
    /\ last.kw = "is_visible"
    /\ last.handle.kind = "PlaybotPage"
    /\ last.arg = "//body"
    /\ last.ret = True
    /\ ElementHandles # {}

\* C5: a keyword either returns, or fails with an error the engine raised,
\* or is start_browser failing with the configuration error; no other error
\* comes from the adapter itself.
C5_OnlyConfigurationErrorIsLocal ==
    \/ last.outcome \in {"ok", "EngineError"}
    \/ last.kw = "start_browser" /\ last.outcome = "RuntimeError"

\* C6: every context of the engine lives in a browser that a successful
\* start_browser launched and every page in an existing context; the context
\* new_context returns was created in the browser the facade holds, the page
\* new_page returns in the context it was given; and new_context with no
\* browser started fails, returns nothing and leaves the engine without
\* contexts.
C6_Nesting ==
    /\ \A c \in 1..Len(engine.contexts) :
          engine.contexts[c].browser \in 1..Len(engine.browsers)
    /\ \A p \in 1..Len(engine.pages) :
          engine.pages[p].context \in 1..Len(engine.contexts)
    /\ (last.kw = "new_context" /\ last.outcome = "ok") =>
          /\ playbot_browser # None
          /\ last.ret = Handle("PlaybotContext", Len(engine.contexts))
          /\ engine.contexts[Len(engine.contexts)].browser = playbot_browser.id
    /\ (last.kw = "new_context" /\ playbot_browser = None) =>
          /\ last.outcome # "ok"
          /\ last.ret = None
          /\ engine.contexts = <<>>
    /\ (last.kw = "new_page" /\ last.outcome = "ok") =>
          /\ last.handle \in ContextHandles
          /\ last.ret = Handle("PlaybotPage", Len(engine.pages))
          /\ engine.pages[Len(engine.pages)].context = last.handle.id

C6_Witness ==
    /\ last.kw = "new_context"
    /\ last.outcome = "ok"
    /\ playbot_browser.id = 2
    /\ Cardinality(LiveBrowsers(engine)) = 2

\* C7: close_context issues exactly one engine close for the context given,
\* whether that context is open or already closed, and ends as that close
\* ends; on an open context the close succeeds and the context is closed
\* after it.
C7_CloseContext ==
    [][last'.kw = "close_context" =>
        /\ Len(last'.calls) = 1
        /\ last'.calls[1].op = "BrowserContext.close"
        /\ last'.calls[1].target = last'.handle.id
        /\ last'.outcome = last'.calls[1].out
        /\ ContextOpen(engine, last'.handle.id) =>
              /\ last'.outcome = "ok"
              /\ ~ContextOpen(engine', last'.handle.id)
    ]_vars

C7_Witness ==
    /\ last.kw = "close_context"
    /\ last.outcome = "EngineError"
    /\ ~ContextOpen(engine, last.handle.id)

\* C8: the facade holds no browser wrapper or the wrapper of one browser
\* that a successful start_browser launched, and none as long as no
\* start_browser has succeeded.
C8_ZeroOrOneWrapper ==
    /\ \/ playbot_browser = None
       \/ /\ playbot_browser.kind = "PlaybotBrowser"
          /\ playbot_browser.id \in 1..Len(engine.browsers)
    /\ engine.browsers = <<>> => playbot_browser = None

C8_Witness ==
    /\ last.kw = "close_browser"
    /\ playbot_browser = Handle("PlaybotBrowser", 2)
    /\ Len(engine.browsers) = 2

\* C9: on an element handle, click and is_visible do the same whatever
\* selector is passed, or none: the same single element-scoped engine
\* operation, the same outcome and result, and never an error of the adapter.
C9_SelectorIgnored ==
    /\ \A x \in ElementHandles : \A s \in Selectors :
          /\ Playbot_click(engine, playbot_browser, x, s)
               = Playbot_click(engine, playbot_browser, x, NoArg)
          /\ Playbot_is_visible(engine, playbot_browser, x, s)
               = Playbot_is_visible(engine, playbot_browser, x, NoArg)
    /\ (last.kw \in {"click", "is_visible"} /\ last.handle.kind = "ElementHandle") =>
          /\ last.outcome \in {"ok", "EngineError"}
          /\ Len(last.calls) = 1
          /\ last.calls[1].arg = NoArg
          /\ last.outcome = last.calls[1].out

C9_Witness ==
    /\ last.kw = "click"
    /\ last.handle.kind = "ElementHandle"
    /\ last.arg = "#missing"
    /\ last.outcome = "ok"

\* C10: a start_browser that succeeds while the facade holds a browser makes
\* the facade hold the new one and leaves the old one running; and a running
\* browser the facade does not hold keeps running whatever keyword comes next.
C10_FirstBrowserOrphaned ==
    [][/\ (last'.kw = "start_browser" /\ last'.outcome = "ok" /\ playbot_browser # None) =>
             /\ playbot_browser' # playbot_browser
             /\ playbot_browser'.id = Len(engine'.browsers)
             /\ BrowserAlive(engine, playbot_browser.id) =>
                   BrowserAlive(engine', playbot_browser.id)
       /\ \A b \in LiveBrowsers(engine) :
             (playbot_browser' = None \/ playbot_browser'.id # b) =>
                 BrowserAlive(engine', b)
    ]_vars

C10_Witness ==
    /\ Cardinality(LiveBrowsers(engine)) = 2
    /\ playbot_browser = Handle("PlaybotBrowser", 2)
    /\ last.kw = "start_browser"

\* C11: a start_browser that fails, with the configuration error or with an
\* error of the engine, leaves the facade holding what it held before the
\* call: nothing, or the wrapper of the browser started earlier.
C11_FailedStartKeepsReference ==
    [][(last'.kw = "start_browser" /\ last'.outcome # "ok") =>
            playbot_browser' = playbot_browser
    ]_vars

C11_Witness ==
    /\ last.kw = "start_browser"
    /\ last.outcome = "EngineError"
    /\ playbot_browser = Handle("PlaybotBrowser", 1)
    /\ BrowserAlive(engine, 1)

\* C12: close_browser leaves the facade holding what it held; once the facade
\* holds a wrapper it holds one after every keyword; and a new_context that
\* follows a close_browser on a facade holding a wrapper is passed to the
\* engine as one Browser.new_context on the browser of that wrapper, and ends
\* as the engine ends.
C12_CloseKeepsReference ==
    [][/\ last'.kw = "close_browser" => playbot_browser' = playbot_browser
       /\ playbot_browser # None => playbot_browser' # None
       /\ (last.kw = "close_browser" /\ playbot_browser # None
              /\ last'.kw = "new_context") =>
             /\ Len(last'.calls) = 1
             /\ last'.calls[1].op = "Browser.new_context"
             /\ last'.calls[1].target = playbot_browser.id
             /\ last'.calls[1].arg = last'.arg
             /\ last'.outcome = last'.calls[1].out
    ]_vars

C12_Witness ==
    /\ last.kw = "close_browser"
    /\ last.outcome # "ok"
    /\ playbot_browser = Handle("PlaybotBrowser", 1)
    /\ engine.contexts = <<>>

=============================================================================
